---- MODULE Spec2Model ----
(***************************************************************************)
(* Class Notification Scheduler (backend/scheduler.py) together with the   *)
(* unique index that backend/server.py creates on sent_notifications.      *)
(*                                                                         *)
(* Time is counted in hundredths of a minute (0.6 s) since 00:00 of day 0, *)
(* Moscow wall time; day 0 is Monday 2024-01-01.  Strings that the code    *)
(* parses are sequences of one-character strings.  StartTick is one call of  *)
(* the evaluation coroutine, cleanup_old_notifications one call of the     *)
(* cleanup coroutine; how start() registers them is modelled on its own.   *)
(***************************************************************************)
EXTENDS Integers, Sequences, FiniteSets, TLC

\* ------------------------------------------------------------------ bounds
MaxTicks == 2
MaxClockSteps == 4
MaxDay == 1100

\* --------------------------------------------------------------- time units
UnitsPerMinute == 100
UnitsPerDay == 24 * 60 * UnitsPerMinute

DayOf(t) == t \div UnitsPerDay

\* now.strftime('%A') followed by day_mapping (transliterated labels)
RussianDay(t) ==
    LET wd == DayOf(t) % 7
    IN  CASE wd = 0 -> "Ponedelnik"
          [] wd = 1 -> "Vtornik"
          [] wd = 2 -> "Sreda"
          [] wd = 3 -> "Chetverg"
          [] wd = 4 -> "Pyatnitsa"
          [] wd = 5 -> "Subbota"
          [] OTHER  -> "Voskresenye"

\* ------------------------------------------------------ ISO week (calendar)
IsLeap(y) == (y % 4 = 0 /\ y % 100 # 0) \/ y % 400 = 0
DaysInYear(y) == IF IsLeap(y) THEN 366 ELSE 365

\* weekday of 31 December of year y, 0 = Sunday (used for the 53-week rule)
Dec31Weekday(y) == (y + y \div 4 - y \div 100 + y \div 400) % 7
IsoWeeksInYear(y) == IF Dec31Weekday(y) = 4 \/ Dec31Weekday(y - 1) = 3 THEN 53 ELSE 52

RECURSIVE YearAndOrdinal(_, _)
YearAndOrdinal(y, d) ==
    IF d < DaysInYear(y) THEN <<y, d + 1>> ELSE YearAndOrdinal(y + 1, d - DaysInYear(y))

\* date.isocalendar()[1] for the date of day number d (d >= 0)
IsoWeek(d) ==
    LET yo  == YearAndOrdinal(2024, d)
        y   == yo[1]
        doy == yo[2]
        wd  == (d % 7) + 1
        w   == (doy - wd + 10) \div 7
    IN  IF w < 1 THEN IsoWeeksInYear(y - 1)
        ELSE IF w > IsoWeeksInYear(y) THEN 1
        ELSE w

\* variant: weeks counted from 1 January, seven days each
get_week_number_by_day_of_year(t) ==
    IF (((YearAndOrdinal(2024, DayOf(t))[2] - 1) \div 7) + 1) % 2 = 1 THEN 1 ELSE 2

get_week_number(t) == IF IsoWeek(DayOf(t)) % 2 = 1 THEN 1 ELSE 2

\* ------------------------------------------------------------ time strings
Digits == <<"0", "1", "2", "3", "4", "5", "6", "7", "8", "9">>
IsDigit(c) == \E i \in 1..10 : Digits[i] = c
DigitVal(c) == (CHOOSE i \in 1..10 : Digits[i] = c) - 1

\* index of the first occurrence of c in s, 0 when absent
FirstIndex(s, c) ==
    IF \E i \in 1..Len(s) : s[i] = c
    THEN CHOOSE i \in 1..Len(s) : s[i] = c /\ \A j \in 1..(i - 1) : s[j] # c
    ELSE 0

\* str.strip(), for blanks
RECURSIVE Strip(_)
Strip(s) ==
    IF s = <<>> THEN s
    ELSE IF Head(s) = " " THEN Strip(Tail(s))
    ELSE IF s[Len(s)] = " " THEN Strip(SubSeq(s, 1, Len(s) - 1))
    ELSE s

\* str.split(sep): the list of parts
RECURSIVE Split(_, _)
Split(s, sep) ==
    LET i == FirstIndex(s, sep)
    IN  IF i = 0 THEN <<s>>
        ELSE <<SubSeq(s, 1, i - 1)>> \o Split(SubSeq(s, i + 1, Len(s)), sep)

RECURSIVE DigitsToNat(_, _)
DigitsToNat(s, acc) ==
    IF s = <<>> THEN acc ELSE DigitsToNat(Tail(s), 10 * acc + DigitVal(Head(s)))

\* int(text): surrounding blanks and a leading "+" are accepted, then one or
\* more digits (a "-" cannot occur: the text is cut at the first "-")
Unsigned(s) == LET t == Strip(s) IN IF t # <<>> /\ Head(t) = "+" THEN Tail(t) ELSE t
IntOk(s) == Unsigned(s) # <<>> /\ \A i \in 1..Len(Unsigned(s)) : IsDigit(Unsigned(s)[i])
IntVal(s) == DigitsToNat(Unsigned(s), 0)

\* time_str.split('-')[0].strip()
StartTimeStr(time_str) == Strip(Split(time_str, "-")[1])

\* variant: hour and minute are not range-checked
ParseStart_unchecked(time_str) ==
    IF time_str = <<>> \/ FirstIndex(time_str, "-") = 0
    THEN [status |-> "skip", hour |-> 0, minute |-> 0]
    ELSE LET parts == Split(StartTimeStr(time_str), ":")
         IN  IF Len(parts) # 2 \/ ~IntOk(parts[1]) \/ ~IntOk(parts[2])
             THEN [status |-> "parse_error", hour |-> 0, minute |-> 0]
             ELSE [status |-> "ok", hour |-> IntVal(parts[1]), minute |-> IntVal(parts[2])]

\* Lines 189-207: "skip" (debug return), "parse_error" (inner except),
\* "value_error" (now.replace raises, outer except) or "ok" with hour, minute
ParseStart(time_str) ==
    IF time_str = <<>> \/ FirstIndex(time_str, "-") = 0
    THEN [status |-> "skip", hour |-> 0, minute |-> 0]
    ELSE LET parts == Split(StartTimeStr(time_str), ":")
         IN  IF Len(parts) # 2 \/ ~IntOk(parts[1]) \/ ~IntOk(parts[2])
             THEN [status |-> "parse_error", hour |-> 0, minute |-> 0]
             ELSE IF IntVal(parts[1]) > 23 \/ IntVal(parts[2]) > 59
             THEN [status |-> "value_error", hour |-> IntVal(parts[1]), minute |-> IntVal(parts[2])]
             ELSE [status |-> "ok", hour |-> IntVal(parts[1]), minute |-> IntVal(parts[2])]

\* -------------------------------------------------------------- due window
\* now.replace(hour=h, minute=m, second=0, microsecond=0)
class_start_time(now, h, m) == DayOf(now) * UnitsPerDay + (h * 60 + m) * UnitsPerMinute

notification_datetime(now, h, m, notification_time) ==
    class_start_time(now, h, m) - notification_time * UnitsPerMinute

\* time_diff_minutes, in hundredths of a minute
time_diff(now, h, m, notification_time) ==
    now - notification_datetime(now, h, m, notification_time)

\* variant: the upper bound is inclusive
IsDue_inclusive(now, h, m, notification_time) ==
    /\ -50 <= time_diff(now, h, m, notification_time)
    /\ time_diff(now, h, m, notification_time) <= 550

\* if -0.5 <= time_diff_minutes < 5.5
IsDue(now, h, m, notification_time) ==
    /\ -50 <= time_diff(now, h, m, notification_time)
    /\ time_diff(now, h, m, notification_time) < 550

\* ------------------------------------------------------------- collections
\* dict.get(field, default)
Get(doc, field, default) == IF field \in DOMAIN doc THEN doc[field] ELSE default

\* "HH:MM-HH:MM" texts used by the events below
T1030 == <<"1", "0", ":", "3", "0", "-", "1", "2", ":", "0", "0">>
T1037 == <<"1", "0", ":", "3", "7", "-", "1", "2", ":", "0", "7">>

\* documents of user_settings, in the order find() returns them
InitUsers ==
    << [telegram_id |-> 1, group_id |-> "G1", notifications_enabled |-> TRUE,
        notification_time |-> 10],
       [telegram_id |-> 2, group_id |-> "G1", notifications_enabled |-> FALSE,
        notification_time |-> 10] >>

InitEvents ==
    << [day |-> "Ponedelnik", time |-> T1030, discipline |-> "Math"],
       [day |-> "Ponedelnik", time |-> T1037, discipline |-> "Physics"],
       [day |-> "Vtornik", time |-> T1030, discipline |-> "Math"],
       [day |-> "Sreda", time |-> T1030, discipline |-> "Math"] >>

\* first tick instant considered: Monday of day 0, 10:17:00
InitClock == (10 * 60 + 17) * UnitsPerMinute

\* the clock moves in steps of 2.5 minutes
ClockStep == (5 * UnitsPerMinute) \div 2

\* documents of schedule_cache are taken as given (written by the fetch path)
InitCache ==
    { [group_id |-> "G1", week_number |-> w, events |-> InitEvents,
       expires_at |-> 7 * UnitsPerDay] : w \in {1, 2} }

\* variant: the key carries the tick instant instead of the date
notification_key_with_time(telegram_id, class_event, now) ==
    << telegram_id, Get(class_event, "discipline", "Unknown"),
       StartTimeStr(Get(class_event, "time", <<>>)), now >>

\* variant: the key carries the whole time text, start and end
notification_key_whole_time(telegram_id, class_event, now) ==
    << telegram_id, Get(class_event, "discipline", "Unknown"),
       Get(class_event, "time", <<>>), DayOf(now) >>

\* f"{telegram_id}_{discipline}_{start_time_str}_{today_date}"
notification_key(telegram_id, class_event, now) ==
    << telegram_id, Get(class_event, "discipline", "Unknown"),
       StartTimeStr(Get(class_event, "time", <<>>)), DayOf(now) >>

\* counters with a growing domain
Count(f, k) == IF k \in DOMAIN f THEN f[k] ELSE 0
Incr(f, k) == IF k \in DOMAIN f THEN [f EXCEPT ![k] = @ + 1] ELSE f @@ (k :> 1)

\* ------------------------------------------------------------------- state
VARIABLES
    clock,               \* wall clock (Moscow), hundredths of a minute
    steps,               \* clock advances so far
    ticks,               \* evaluation ticks started so far
    user_settings,       \* collection user_settings
    schedule_cache,      \* collection schedule_cache
    sent_notifications,  \* collection sent_notifications (DispatchRecords)
    proc,                \* per scheduler process: position and locals of its tick
    sends,               \* key -> calls of send_class_notification
    outcomes,            \* <<key, what>> -> how often it happened to an attempt for
                         \* key (store errors: <<key, "Error", now of the tick>>)
    handler,             \* except clause the last step ended in, or "None"
    calc,                \* inputs and result of the last pure-function evaluation
    scheduler            \* per process: self.scheduler, its jobs and whether it runs

vars == << clock, steps, ticks, user_settings, schedule_cache, sent_notifications,
           proc, sends, outcomes, handler, calc, scheduler >>

\* two scheduler processes share the store
Procs == {"A", "B"}

NoCalc == [fn |-> "none"]

\* AsyncIOScheduler() of __init__: no jobs, not running
NewScheduler == [state |-> "new", jobs |-> {}, running |-> FALSE]

Idle == [pc |-> "idle", now |-> 0, users |-> <<>>, uidx |-> 0,
         classes |-> <<>>, cidx |-> 0, success |-> "None"]

\* the class event and the user a process is working on
CurUser(pr) == pr.users[pr.uidx]
CurEvent(pr) == pr.classes[pr.cidx]
CurLead(pr) == Get(CurUser(pr), "notification_time", 10)
\* variant: the key also carries the lead time
CurKey_with_lead(pr) ==
    Append(notification_key(CurUser(pr).telegram_id, CurEvent(pr), pr.now), CurLead(pr))
CurKey(pr) == notification_key(CurUser(pr).telegram_id, CurEvent(pr), pr.now)

\* the dispatch key (telegramId, discipline, classStartTime, date) of an attempt
\* and of a stored record; the history variables are indexed by it
DispatchKey(pr) ==
    << CurUser(pr).telegram_id, Get(CurEvent(pr), "discipline", "Unknown"),
       StartTimeStr(Get(CurEvent(pr), "time", <<>>)), DayOf(pr.now) >>
RecordKey(r) == << r.telegram_id, r.class_discipline, StartTimeStr(r.class_time), r.date >>

\* the for-loops of check_and_send_notifications and _check_user_classes
AfterUser(pr) ==
    IF pr.uidx < Len(pr.users)
    THEN [pr EXCEPT !.pc = "user", !.uidx = @ + 1, !.classes = <<>>, !.cidx = 0,
                    !.success = "None"]
    ELSE Idle

\* variant: the loop over a user's classes ends after the first class
AfterClass_first_only(pr) == AfterUser(pr)

AfterClass(pr) ==
    IF pr.cidx < Len(pr.classes)
    THEN [pr EXCEPT !.pc = "class", !.cidx = @ + 1, !.success = "None"]
    ELSE AfterUser(pr)

\* variant: _check_and_notify has no outer try/except
ExceptClause_no_outer(site) ==
    CASE site = "find:100"        -> "tick:117"
      [] site = "find_one:142"    -> "user:169"
      [] site = "int:196"         -> "parse:198"
      [] site = "replace:202"     -> "caller"
      [] site = "find_one:232"    -> "caller"
      [] site = "insert_one:245"  -> "claim:263"
      [] site = "send:268"        -> "caller"
      [] site = "update_one:276"  -> "update:281"
      [] site = "delete_many:334" -> "cleanup:344"

\* the except clause that catches an exception raised at a call site
ExceptClause(site) ==
    CASE site = "find:100"        -> "tick:117"
      [] site = "find_one:142"    -> "user:169"
      [] site = "int:196"         -> "parse:198"
      [] site = "replace:202"     -> "class:297"
      [] site = "find_one:232"    -> "class:297"
      [] site = "insert_one:245"  -> "claim:263"
      [] site = "send:268"        -> "class:297"
      [] site = "update_one:276"  -> "update:281"
      [] site = "delete_many:334" -> "cleanup:344"

\* variant: the collection has no unique index
DuplicateKey_noindex(coll, key) == FALSE

\* unique index unique_notification_key on sent_notifications
DuplicateKey(coll, key) == \E r \in coll : r.notification_key = key

Init ==
    /\ clock = InitClock
    /\ steps = 0
    /\ ticks = 0
    /\ user_settings = InitUsers
    /\ schedule_cache = InitCache
    /\ sent_notifications = {}
    /\ proc = [p \in Procs |-> Idle]
    /\ sends = <<>>
    /\ outcomes = <<>>
    /\ handler = "None"
    /\ calc = NoCalc
    /\ scheduler = [p \in Procs |-> NewScheduler]

\* ------------------------------------------------------------------ actions
\* find({"notifications_enabled": True, "group_id": {"$exists": True, "$ne": None}})
Eligible(u) ==
    /\ Get(u, "notifications_enabled", FALSE) = TRUE
    /\ "group_id" \in DOMAIN u
    /\ u.group_id # "null"

EligibleUsers(coll) == SelectSeq(coll, Eligible)

\* variant: the lookup ignores expires_at
FindSchedule_ignore_expiry(coll, user, now) ==
    { c \in coll : /\ c.group_id = Get(user, "group_id", "null")
                   /\ c.week_number = get_week_number(now) }

\* schedule_cache.find_one({group_id, week_number, expires_at > now})
FindSchedule(coll, user, now) ==
    { c \in coll : /\ c.group_id = Get(user, "group_id", "null")
                   /\ c.week_number = get_week_number(now)
                   /\ c.expires_at > now }

\* today_classes = [e for e in events if e.get('day') == day]
TodayClasses(events, now) ==
    LET IsToday(e) == Get(e, "day", "None") = RussianDay(now)
    IN  SelectSeq(events, IsToday)

\* check_and_send_notifications, lines 77-105: read the clock, list the users
BeginTick(p) ==
    /\ proc[p].pc = "idle"
    /\ ticks' = ticks + 1
    /\ \E fail \in BOOLEAN :
         IF fail
         THEN /\ handler' = ExceptClause("find:100")
              /\ proc' = proc
         ELSE LET found == EligibleUsers(user_settings)
              IN  /\ handler' = "None"
                  /\ proc' = [proc EXCEPT ![p] =
                        IF found = <<>> THEN Idle
                        ELSE [Idle EXCEPT !.pc = "user", !.now = clock,
                                          !.users = found, !.uidx = 1]]
    /\ UNCHANGED << clock, steps, user_settings, schedule_cache, sent_notifications,
                    sends, outcomes, calc, scheduler >>

\* a run of the evaluation job, for a bounded number of runs
StartTick(p) == ticks < MaxTicks /\ BeginTick(p)

\* _check_user_classes, lines 135-157: look the snapshot up, keep today's classes
CheckUser(p) ==
    /\ proc[p].pc = "user"
    /\ \E fail \in BOOLEAN :
         IF fail
         THEN /\ handler' = ExceptClause("find_one:142")
              /\ proc' = [proc EXCEPT ![p] = AfterUser(@)]
         ELSE /\ handler' = "None"
              /\ LET hits == FindSchedule(schedule_cache, CurUser(proc[p]), proc[p].now)
                 IN  IF hits = {}
                     THEN proc' = [proc EXCEPT ![p] = AfterUser(@)]
                     ELSE \E cached \in hits :
                            LET today == TodayClasses(Get(cached, "events", <<>>), proc[p].now)
                            IN  proc' = [proc EXCEPT ![p] =
                                   IF today = <<>> THEN AfterUser(@)
                                   ELSE [@ EXCEPT !.pc = "class", !.classes = today,
                                                  !.cidx = 1]]
    /\ UNCHANGED << clock, steps, ticks, user_settings, schedule_cache,
                    sent_notifications, sends, outcomes, calc, scheduler >>

\* variant: the filter matches any record of the key's user
find_one_by_user(coll, key) == { r \in coll : r.notification_key[1] = key[1] }

\* sent_notifications.find_one({"notification_key": key}): the documents found
find_one(coll, key) == { r \in coll : r.notification_key = key }

\* _check_and_notify, lines 187-238: parse, window test, pre-check of the store
Evaluate(p) ==
    /\ proc[p].pc = "class"
    /\ LET pr     == proc[p]
           parsed == ParseStart(Get(CurEvent(pr), "time", <<>>))
           key    == CurKey(pr)
           dkey   == DispatchKey(pr)
       IN  IF parsed.status = "skip"
           THEN /\ proc' = [proc EXCEPT ![p] = AfterClass(@)]
                /\ handler' = "None"
                /\ UNCHANGED outcomes
           ELSE IF parsed.status # "ok"
           THEN /\ proc' = [proc EXCEPT ![p] = AfterClass(@)]
                /\ handler' = (IF parsed.status = "parse_error" THEN ExceptClause("int:196")
                             ELSE ExceptClause("replace:202"))
                /\ UNCHANGED outcomes
           ELSE IF ~IsDue(pr.now, parsed.hour, parsed.minute, CurLead(pr))
           THEN /\ proc' = [proc EXCEPT ![p] = AfterClass(@)]
                /\ handler' = "None"
                /\ UNCHANGED outcomes
           ELSE \E fail \in BOOLEAN :
                  IF fail
                  THEN /\ proc' = [proc EXCEPT ![p] = AfterClass(@)]
                       /\ handler' = ExceptClause("find_one:232")
                       /\ outcomes' = Incr(outcomes, <<dkey, "Error", pr.now>>)
                  ELSE IF find_one(sent_notifications, key) # {}
                  THEN /\ proc' = [proc EXCEPT ![p] = AfterClass(@)]
                       /\ outcomes' = Incr(outcomes, <<dkey, "AlreadyClaimed">>)
                       /\ handler' = "None"
                  ELSE /\ proc' = [proc EXCEPT ![p].pc = "insert"]
                       /\ handler' = "None"
                       /\ UNCHANGED outcomes
    /\ UNCHANGED << clock, steps, ticks, user_settings, schedule_cache,
                    sent_notifications, sends, calc, scheduler >>

\* the document of lines 245-255
NewRecord(pr) ==
    [ notification_key |-> CurKey(pr),
      telegram_id |-> CurUser(pr).telegram_id,
      class_discipline |-> Get(CurEvent(pr), "discipline", "Unknown"),
      class_time |-> Get(CurEvent(pr), "time", <<>>),
      notification_time_minutes |-> CurLead(pr),
      sent_at |-> pr.now,
      date |-> DayOf(pr.now),
      success |-> "None",
      expires_at |-> pr.now + 2 * UnitsPerDay ]

\* variant: the insert ignores the index
insert_one_blind(coll, doc, fail) ==
    IF fail THEN [error |-> "Exception", coll |-> coll]
    ELSE [error |-> "None", coll |-> coll \cup {doc}]

\* variant: the insert is acknowledged but the document is not stored
insert_one_lost(coll, doc, fail) ==
    IF fail THEN [error |-> "Exception", coll |-> coll]
    ELSE IF DuplicateKey(coll, doc.notification_key)
    THEN [error |-> "DuplicateKeyError", coll |-> coll]
    ELSE [error |-> "None", coll |-> coll]

\* variant: a duplicate is reported but the stored document is replaced
insert_one_overwrite(coll, doc, fail) ==
    IF fail THEN [error |-> "Exception", coll |-> coll]
    ELSE IF DuplicateKey(coll, doc.notification_key)
    THEN [error |-> "DuplicateKeyError",
          coll |-> {r \in coll : r.notification_key # doc.notification_key} \cup {doc}]
    ELSE [error |-> "None", coll |-> coll \cup {doc}]

\* variant: the store reports an error although it has stored the document
insert_one_applied_on_error(coll, doc, fail) ==
    IF DuplicateKey(coll, doc.notification_key)
    THEN [error |-> IF fail THEN "Exception" ELSE "DuplicateKeyError", coll |-> coll]
    ELSE [error |-> IF fail THEN "Exception" ELSE "None", coll |-> coll \cup {doc}]

\* insert_one under the unique index; fail: the store is unreachable
insert_one(coll, doc, fail) ==
    IF fail THEN [error |-> "Exception", coll |-> coll]
    ELSE IF DuplicateKey(coll, doc.notification_key)
    THEN [error |-> "DuplicateKeyError", coll |-> coll]
    ELSE [error |-> "None", coll |-> coll \cup {doc}]

\* _check_and_notify, lines 242-265: claim the key
Insert(p) ==
    /\ proc[p].pc = "insert"
    /\ \E fail \in BOOLEAN :
         LET pr  == proc[p]
             key == DispatchKey(pr)
             res == insert_one(sent_notifications, NewRecord(pr), fail)
         IN  /\ sent_notifications' = res.coll
             /\ IF res.error = "DuplicateKeyError"
                THEN /\ proc' = [proc EXCEPT ![p] = AfterClass(@)]
                     /\ outcomes' = Incr(outcomes, <<key, "AlreadyClaimed">>)
                     /\ handler' = "dup:257"
                ELSE IF res.error # "None"
                THEN /\ proc' = [proc EXCEPT ![p] = AfterClass(@)]
                     /\ outcomes' = Incr(outcomes, <<key, "Error", pr.now>>)
                     /\ handler' = ExceptClause("insert_one:245")
                ELSE /\ proc' = [proc EXCEPT ![p].pc = "send"]
                     /\ outcomes' = Incr(outcomes, <<key, "Claimed">>)
                     /\ handler' = "None"
    /\ UNCHANGED << clock, steps, ticks, user_settings, schedule_cache, sends, calc, scheduler >>

\* what notification_service.send_class_notification can do: return a boolean
\* or raise a transport error
send_class_notification == {"True", "False", "raise"}

\* _check_and_notify, lines 267-272: call the channel
Send(p) ==
    /\ proc[p].pc = "send"
    /\ sends' = Incr(sends, DispatchKey(proc[p]))
    /\ \E delivered \in send_class_notification :
         IF delivered = "raise"
         THEN /\ proc' = [proc EXCEPT ![p] = AfterClass(@)]
              /\ outcomes' = Incr(outcomes, <<DispatchKey(proc[p]), "SendRaised">>)
              /\ handler' = ExceptClause("send:268")
         ELSE /\ proc' = [proc EXCEPT ![p].pc = "update", ![p].success = delivered]
              /\ outcomes' = Incr(outcomes, <<DispatchKey(proc[p]), delivered>>)
              /\ handler' = "None"
    /\ UNCHANGED << clock, steps, ticks, user_settings, schedule_cache,
                    sent_notifications, calc, scheduler >>

\* variant: a failed delivery removes the record, so that it is tried again
update_one_drop_failed(coll, key, success, fail) ==
    IF fail THEN [error |-> "Exception", coll |-> coll]
    ELSE [error |-> "None",
          coll |-> IF success = "False" THEN coll \ find_one(coll, key)
                   ELSE { IF r.notification_key = key THEN [r EXCEPT !.success = success]
                          ELSE r : r \in coll }]

\* variant: the filter matches every record of the user, not one key
update_one_by_user(coll, key, success, fail) ==
    IF fail THEN [error |-> "Exception", coll |-> coll]
    ELSE [error |-> "None",
          coll |-> { IF r.telegram_id = key[1] THEN [r EXCEPT !.success = success]
                     ELSE r : r \in coll }]

\* variant: the store reports an error although it has applied the update
update_one_applied_on_error(coll, key, success, fail) ==
    [error |-> IF fail THEN "Exception" ELSE "None",
     coll |-> { IF r.notification_key = key THEN [r EXCEPT !.success = success]
                ELSE r : r \in coll }]

\* update_one({"notification_key": key}, {"$set": {"success": success}})
update_one(coll, key, success, fail) ==
    IF fail THEN [error |-> "Exception", coll |-> coll]
    ELSE [error |-> "None",
          coll |-> IF find_one(coll, key) = {} THEN coll
                   ELSE LET hit == CHOOSE r \in coll : r.notification_key = key
                        IN  (coll \ {hit}) \cup {[hit EXCEPT !.success = success]}]

\* _check_and_notify, lines 274-286: write the outcome back
Update(p) ==
    /\ proc[p].pc = "update"
    /\ \E fail \in BOOLEAN :
         LET key == DispatchKey(proc[p])
             res == update_one(sent_notifications, CurKey(proc[p]), proc[p].success, fail)
         IN  /\ sent_notifications' = res.coll
             /\ IF res.error # "None"
                THEN /\ outcomes' = Incr(outcomes, <<key, "UpdateFailed">>)
                     /\ handler' = ExceptClause("update_one:276")
                ELSE /\ outcomes' = Incr(outcomes, <<key, "Recorded">>)
                     /\ handler' = "None"
    /\ proc' = [proc EXCEPT ![p] = AfterClass(@)]
    /\ UNCHANGED << clock, steps, ticks, user_settings, schedule_cache, sends, calc, scheduler >>

\* the scheduler process dies and is restarted: the running tick is lost
Crash(p) ==
    /\ proc[p].pc # "idle"
    /\ proc' = [proc EXCEPT ![p] = Idle]
    /\ outcomes' = (IF proc[p].pc \in {"send", "update"}
                    THEN Incr(outcomes, <<DispatchKey(proc[p]), "Crashed">>)
                    ELSE outcomes)
    /\ handler' = "None"
    /\ UNCHANGED << clock, steps, ticks, user_settings, schedule_cache,
                    sent_notifications, sends, calc, scheduler >>

\* time passes
Advance ==
    /\ steps < MaxClockSteps
    /\ steps' = steps + 1
    /\ clock' = clock + ClockStep
    /\ handler' = "None"
    /\ UNCHANGED << ticks, user_settings, schedule_cache, sent_notifications, proc,
                    sends, outcomes, calc, scheduler >>

Next ==
    \/ \E p \in Procs : StartTick(p)
    \/ \E p \in Procs : CheckUser(p)
    \/ \E p \in Procs : Evaluate(p)
    \/ \E p \in Procs : Insert(p)
    \/ \E p \in Procs : Send(p)
    \/ \E p \in Procs : Update(p)
    \/ \E p \in Procs : Crash(p)
    \/ Advance

Spec == Init /\ [][Next]_vars

\* except clauses that log at error level
ErrorHandlers ==
    {"tick:117", "user:169", "parse:198", "claim:263", "update:281", "class:297",
     "cleanup:344", "clear_db:690", "save:355", "startup:3148", "shutdown:3212",
     "schedule:292"}

TypeOK ==
    /\ \A p \in Procs :
         proc[p].pc \in {"idle", "user", "class", "insert", "send", "update", "hung"}
    /\ \A r \in sent_notifications : r.success \in {"None", "True", "False"}
    /\ handler \in ErrorHandlers \cup {"None", "dup:257"}

\* ------------------------------------------------------- retention sweeper
\* variant: the filter compares the creation time instead of expires_at
delete_many_created_before(coll, now, fail) ==
    IF fail THEN [error |-> "Exception", coll |-> coll, deleted_count |-> 0]
    ELSE [error |-> "None",
          coll |-> { r \in coll : ~(r.sent_at < now) },
          deleted_count |-> Cardinality({ r \in coll : r.sent_at < now })]

\* sent_notifications.delete_many({"expires_at": {"$lt": now}})
delete_many(coll, now, fail) ==
    IF fail THEN [error |-> "Exception", coll |-> coll, deleted_count |-> 0]
    ELSE [error |-> "None",
          coll |-> { r \in coll : ~(r.expires_at < now) },
          deleted_count |-> Cardinality({ r \in coll : r.expires_at < now })]

\* cleanup_old_notifications, lines 330-344: one sweep at the current instant
cleanup_old_notifications ==
    /\ \E fail \in BOOLEAN :
         LET res == delete_many(sent_notifications, clock, fail)
         IN  /\ sent_notifications' = res.coll
             /\ handler' = (IF res.error # "None" THEN ExceptClause("delete_many:334")
                            ELSE "None")
             /\ calc' = [fn |-> "cleanup", deleted_count |-> res.deleted_count,
                         log |-> IF res.error # "None" THEN "error"
                                 ELSE IF res.deleted_count > 0 THEN "info" ELSE "debug"]
    /\ UNCHANGED << clock, steps, ticks, user_settings, schedule_cache, proc, sends,
                    outcomes, scheduler >>

\* clear_db_command (telegram_bot.py): for an administrator with the password,
\* delete_many({}) on every collection, each in its own try/except
clear_db_command ==
    /\ \E authorized \in BOOLEAN, failed \in SUBSET {"user_settings", "schedule_cache",
                                                      "sent_notifications"} :
         IF ~authorized
         THEN /\ handler' = "None"
              /\ UNCHANGED << user_settings, schedule_cache, sent_notifications, calc >>
         ELSE /\ user_settings' = (IF "user_settings" \in failed THEN user_settings
                                   ELSE <<>>)
              /\ schedule_cache' = (IF "schedule_cache" \in failed THEN schedule_cache
                                    ELSE {})
              /\ sent_notifications' = (IF "sent_notifications" \in failed
                                        THEN sent_notifications ELSE {})
              /\ handler' = (IF failed # {} THEN "clear_db:690" ELSE "None")
              /\ calc' = [fn |-> "clear_db",
                          deleted_count |->
                            (IF "user_settings" \in failed THEN 0 ELSE Len(user_settings))
                            + (IF "schedule_cache" \in failed THEN 0
                               ELSE Cardinality(schedule_cache))
                            + (IF "sent_notifications" \in failed THEN 0
                               ELSE Cardinality(sent_notifications))]
    /\ UNCHANGED << clock, steps, ticks, proc, sends, outcomes, scheduler >>

\* the record that the evaluation of user 1 and event e at instant t has left
OldRecord(e, t, success) ==
    [ NewRecord([Idle EXCEPT !.now = t, !.users = <<InitUsers[1]>>, !.uidx = 1,
                             !.classes = <<e>>, !.cidx = 1])
      EXCEPT !.success = success ]

\* Wednesday of day 2, 10:17:00: the reminders of Monday and Tuesday, claimed at
\* 10:19:30 of their day, are in the store; Monday's expires at 10:19:30 today
InitSweep ==
    /\ clock = 2 * UnitsPerDay + InitClock
    /\ steps = 0
    /\ ticks = 0
    /\ user_settings = InitUsers
    /\ schedule_cache = InitCache
    /\ sent_notifications =
         { OldRecord(InitEvents[1], InitClock + ClockStep, "True"),
           OldRecord(InitEvents[3], UnitsPerDay + InitClock + ClockStep, "False") }
    /\ proc = [p \in Procs |-> Idle]
    /\ sends = <<>>
    /\ outcomes = <<>>
    /\ handler = "None"
    /\ calc = NoCalc
    /\ scheduler = [p \in Procs |-> NewScheduler]

\* one scheduler process with its evaluation and cleanup jobs
NextSweep ==
    \/ StartTick("A")
    \/ CheckUser("A")
    \/ Evaluate("A")
    \/ Insert("A")
    \/ Send("A")
    \/ Update("A")
    \/ cleanup_old_notifications
    \/ Advance

SpecSweep == InitSweep /\ [][NextSweep]_vars

\* the operations that delete from sent_notifications: the cleanup job and the
\* administrator's command of the bot
NextAdmin ==
    \/ cleanup_old_notifications
    \/ clear_db_command
    \/ Advance

SpecAdmin == InitSweep /\ [][NextAdmin]_vars

\* ------------------------------------------- users and events at the edges
\* time texts that cannot be evaluated
TNoDash == <<"1", "0", "3", "0">>
TLetters == <<"a", "b", ":", "c", "d", "-", "1", "2", ":", "0", "0">>
T0990 == <<"9", ":", "9", "0", "-", "1", "1", ":", "0", "0">>
T2430 == <<"2", "4", ":", "3", "0", "-", "2", "5", ":", "0", "0">>

\* Monday's classes of group G1: five that cannot be evaluated, then Math at 10:30
EdgeEvents ==
    << [day |-> "Ponedelnik", discipline |-> "NoTime"],
       [day |-> "Ponedelnik", time |-> TNoDash, discipline |-> "NoDash"],
       [day |-> "Ponedelnik", time |-> TLetters, discipline |-> "Letters"],
       [day |-> "Ponedelnik", time |-> T0990, discipline |-> "Minute90"],
       [day |-> "Ponedelnik", time |-> T2430, discipline |-> "Hour24"],
       [day |-> "Ponedelnik", time |-> T1030, discipline |-> "Math"] >>

\* users with reminders enabled whose group has no usable snapshot (3), is the
\* empty string (4), is missing (5, as created by the bot) or is null (6), a
\* user with reminders disabled (2) and a regular user (1)
EdgeUsers ==
    << [telegram_id |-> 3, group_id |-> "G2", notifications_enabled |-> TRUE,
        notification_time |-> 10],
       [telegram_id |-> 4, group_id |-> "", notifications_enabled |-> TRUE,
        notification_time |-> 10],
       [telegram_id |-> 5, notifications_enabled |-> TRUE, notification_time |-> 10],
       [telegram_id |-> 6, group_id |-> "null", notifications_enabled |-> TRUE,
        notification_time |-> 10],
       [telegram_id |-> 2, group_id |-> "G1", notifications_enabled |-> FALSE,
        notification_time |-> 10],
       [telegram_id |-> 1, group_id |-> "G1", notifications_enabled |-> TRUE,
        notification_time |-> 10] >>

\* G1 has both weeks; G2 has week 1 only, and that snapshot expires at 10:19:30
EdgeCache ==
    { [group_id |-> "G1", week_number |-> w, events |-> EdgeEvents,
       expires_at |-> 7 * UnitsPerDay] : w \in {1, 2} }
    \cup { [group_id |-> "G2", week_number |-> 1, events |-> InitEvents,
            expires_at |-> InitClock + ClockStep] }

InitEdge ==
    /\ clock = InitClock
    /\ steps = 0
    /\ ticks = 0
    /\ user_settings = EdgeUsers
    /\ schedule_cache = EdgeCache
    /\ sent_notifications = {}
    /\ proc = [p \in Procs |-> Idle]
    /\ sends = <<>>
    /\ outcomes = <<>>
    /\ handler = "None"
    /\ calc = NoCalc
    /\ scheduler = [p \in Procs |-> NewScheduler]

\* the evaluation job of one scheduler process
NextEdge ==
    \/ StartTick("A")
    \/ CheckUser("A")
    \/ Evaluate("A")
    \/ Insert("A")
    \/ Send("A")
    \/ Update("A")
    \/ Advance

SpecEdge == InitEdge /\ [][NextEdge]_vars

\* ---------------------------------------------------- week parity, in isolation
\* _get_week_number for a tick at 10:17 of any day from 2024-01-01 on
ComputeWeek ==
    /\ \E d \in 0..MaxDay :
         calc' = [fn |-> "week", day |-> d,
                  week_number |-> get_week_number(d * UnitsPerDay + InitClock)]
    /\ UNCHANGED << clock, steps, ticks, user_settings, schedule_cache,
                    sent_notifications, proc, sends, outcomes, handler, scheduler >>

SpecWeek == Init /\ [][ComputeWeek]_vars

\* ------------------------------------------------------- start of the scheduler
\* the methods that class NotificationScheduler defines
Methods ==
    {"__init__", "start", "stop", "check_and_send_notifications", "_check_user_classes",
     "_check_and_notify", "_get_week_number", "cleanup_old_notifications"}

\* the add_job calls of start(), in order: job id, method of self, trigger
JobsOfStart ==
    << [id |-> "check_notifications", func |-> "check_and_send_notifications",
        trigger |-> "interval 5 minutes"],
       [id |-> "cleanup_notifications", func |-> "cleanup_old_notifications",
        trigger |-> "interval 6 hours"],
       [id |-> "reset_daily_tasks", func |-> "reset_daily_task_counters",
        trigger |-> "cron 00:00 Europe/Moscow"] >>

\* the add_job calls one after the other; looking up a method that self does
\* not have raises AttributeError and ends start()
RECURSIVE add_jobs(_, _)
add_jobs(jobs, todo) ==
    IF todo = <<>> THEN [error |-> "None", jobs |-> jobs]
    ELSE IF Head(todo).func \notin Methods
    THEN [error |-> "AttributeError", jobs |-> jobs]
    ELSE add_jobs({ j \in jobs : j.id # Head(todo).id }
                  \cup {[id |-> Head(todo).id, trigger |-> Head(todo).trigger]},
                  Tail(todo))

\* NotificationScheduler.start: the jobs, then self.scheduler.start()
start(sched) ==
    LET res == add_jobs(sched.jobs, JobsOfStart)
    IN  IF res.error # "None"
        THEN [state |-> "start raised", jobs |-> res.jobs, running |-> FALSE]
        ELSE [state |-> "started", jobs |-> res.jobs, running |-> TRUE]

\* startup_event, lines 3142-3148: get_scheduler(db).start() inside try/except
startup_event(p) ==
    /\ scheduler[p].state = "new"
    /\ scheduler' = [scheduler EXCEPT ![p] = start(@)]
    /\ handler' = (IF start(scheduler[p]).state = "started" THEN "None" ELSE "startup:3148")
    /\ UNCHANGED << clock, steps, ticks, user_settings, schedule_cache,
                    sent_notifications, proc, sends, outcomes, calc >>

\* the interval of the evaluation job elapses in process p: the job runs only
\* if it is registered and the scheduler is running
IntervalElapsed(p) ==
    /\ scheduler[p].state # "new"
    /\ calc' = [fn |-> "trigger", process |-> p,
                fired |-> /\ scheduler[p].running
                          /\ \E j \in scheduler[p].jobs : j.id = "check_notifications"]
    /\ handler' = "None"
    /\ UNCHANGED << clock, steps, ticks, user_settings, schedule_cache,
                    sent_notifications, proc, sends, outcomes, scheduler >>

\* shutdown_db_client, lines 3207-3212: stop() calls shutdown(), which raises
\* when the scheduler is not running; the process ends
shutdown_db_client(p) ==
    /\ scheduler[p].state \in {"started", "start raised"}
    /\ scheduler' = [scheduler EXCEPT ![p] = [@ EXCEPT !.state = "stopped",
                                                         !.running = FALSE]]
    /\ handler' = (IF scheduler[p].running THEN "None" ELSE "shutdown:3212")
    /\ UNCHANGED << clock, steps, ticks, user_settings, schedule_cache,
                    sent_notifications, proc, sends, outcomes, calc >>

\* the server process is started again
Restart(p) ==
    /\ scheduler[p].state = "stopped"
    /\ scheduler' = [scheduler EXCEPT ![p] = NewScheduler]
    /\ handler' = "None"
    /\ UNCHANGED << clock, steps, ticks, user_settings, schedule_cache,
                    sent_notifications, proc, sends, outcomes, calc >>

NextStart ==
    \/ \E p \in Procs : startup_event(p)
    \/ \E p \in Procs : IntervalElapsed(p)
    \/ \E p \in Procs : shutdown_db_client(p)
    \/ \E p \in Procs : Restart(p)
    \/ Advance

SpecStart == Init /\ [][NextStart]_vars

\* ------------------------------------------------------------- user settings
\* values of notification_time and of telegram_id that requests carry
LeadInputs == {0, 5, 30, 31}
UserInputs == {1, 7}

\* Field(ge=5, le=30) of UserSettings and NotificationSettingsUpdate
LeadValid(nt) == 5 <= nt /\ nt <= 30

\* index of the stored user with that telegram_id, 0 when there is none
IndexOfUser(coll, tid) ==
    IF \E i \in 1..Len(coll) : coll[i].telegram_id = tid
    THEN CHOOSE i \in 1..Len(coll) : coll[i].telegram_id = tid
    ELSE 0

\* POST /user-settings: an existing user gets settings.dict() by $set, a new
\* one is validated by UserSettings(...) and inserted; a body without the
\* notification fields (given = FALSE) carries the defaults of UserSettingsCreate
save_user_settings ==
    /\ \E tid \in UserInputs, group \in {"G1", ""}, given \in BOOLEAN,
          enabled \in BOOLEAN, nt \in LeadInputs :
         LET i == IndexOfUser(user_settings, tid)
             doc == [telegram_id |-> tid, group_id |-> group,
                     notifications_enabled |-> IF given THEN enabled ELSE FALSE,
                     notification_time |-> IF given THEN nt ELSE 10]
         IN  IF i # 0
             THEN /\ user_settings' = [user_settings EXCEPT ![i] = doc]
                  /\ calc' = [fn |-> "save_user_settings", status |-> 200,
                              telegram_id |-> tid, given |-> given]
                  /\ handler' = "None"
             ELSE IF ~LeadValid(doc.notification_time)
             THEN /\ user_settings' = user_settings
                  /\ calc' = [fn |-> "save_user_settings", status |-> 500,
                              telegram_id |-> tid, given |-> given]
                  /\ handler' = "save:355"
             ELSE /\ user_settings' = Append(user_settings, doc)
                  /\ calc' = [fn |-> "save_user_settings", status |-> 200,
                              telegram_id |-> tid, given |-> given]
                  /\ handler' = "None"
    /\ UNCHANGED << clock, steps, ticks, schedule_cache, sent_notifications, proc,
                    sends, outcomes, scheduler >>

\* PUT /user-settings/{telegram_id}/notifications: the body is validated by
\* NotificationSettingsUpdate before the handler runs
update_notification_settings ==
    /\ \E tid \in UserInputs, enabled \in BOOLEAN, nt \in LeadInputs :
         LET i == IndexOfUser(user_settings, tid)
         IN  IF ~LeadValid(nt)
             THEN /\ user_settings' = user_settings
                  /\ calc' = [fn |-> "update_notification_settings", status |-> 422]
             ELSE IF i = 0
             THEN /\ user_settings' = user_settings
                  /\ calc' = [fn |-> "update_notification_settings", status |-> 404]
             ELSE /\ user_settings' =
                       [user_settings EXCEPT ![i] =
                          [f \in DOMAIN @ \cup {"notifications_enabled", "notification_time"} |->
                             IF f = "notifications_enabled" THEN enabled
                             ELSE IF f = "notification_time" THEN nt ELSE @[f]]]
                  /\ calc' = [fn |-> "update_notification_settings", status |-> 200]
    /\ handler' = "None"
    /\ UNCHANGED << clock, steps, ticks, schedule_cache, sent_notifications, proc,
                    sends, outcomes, scheduler >>

NextSettings ==
    \/ save_user_settings
    \/ update_notification_settings

SpecSettings == Init /\ [][NextSettings]_vars

\* --------------------------------------------------- due window, in isolation
WindowStarts == { <<0, 5>>, <<10, 30>>, <<23, 55>> }
WindowLeads == {5, 10, 30}
WindowDeltas == (-60 .. -40) \cup (540 .. 560) \cup {-1000, 0, 250, 1000}

\* one evaluation of the window test of lines 201-221
ComputeDue ==
    /\ \E st \in WindowStarts, lead \in WindowLeads, d \in WindowDeltas, day \in {1, 2} :
         LET now == day * UnitsPerDay + (st[1] * 60 + st[2] - lead) * UnitsPerMinute + d
         IN  calc' = [fn |-> "IsDue", now |-> now, hour |-> st[1], minute |-> st[2],
                      lead |-> lead, due |-> IsDue(now, st[1], st[2], lead)]
    /\ UNCHANGED << clock, steps, ticks, user_settings, schedule_cache,
                    sent_notifications, proc, sends, outcomes, handler, scheduler >>

SpecWindow == Init /\ [][ComputeDue]_vars

\* ------------------------------------------------------------------ claims
Keys == { e[1] : e \in DOMAIN outcomes } \cup DOMAIN sends
Records(k) == { r \in sent_notifications : RecordKey(r) = k }
HasError(k) == \E e \in DOMAIN outcomes : e[1] = k /\ e[2] = "Error"
InFlight(k) ==
    \E p \in Procs : proc[p].pc \in {"insert", "send", "update"} /\ DispatchKey(proc[p]) = k

SendOnlyAfterInsert ==
    [][ \A k \in DOMAIN sends' :
          Count(sends', k) > Count(sends, k) =>
            \E p \in Procs :
              /\ proc[p].pc = "send"
              /\ DispatchKey(proc[p]) = k
              /\ \E r \in Records(k) : r.success = "None" /\ r.sent_at = proc[p].now ]_vars

\* a send has happened for a key whose record is in the store
SentWithRecord == \E k \in Keys : Count(sends, k) = 1 /\ Records(k) # {}

\* C4: an attempt that finds the key already owned (by the pre-check or by the
\* duplicate-key error of the insert) sends nothing, logs no error and leaves
\* the store unchanged.
AlreadyClaimedIsSilent ==
    [][ (\E e \in DOMAIN outcomes' :
            e[2] = "AlreadyClaimed" /\ Count(outcomes', e) > Count(outcomes, e))
        => /\ sends' = sends
           /\ sent_notifications' = sent_notifications
           /\ handler' \notin ErrorHandlers ]_vars

\* the pre-check found the record of a key that was sent once
BlockedByPreCheck ==
    /\ handler = "None"
    /\ \E k \in Keys : /\ Count(outcomes, <<k, "AlreadyClaimed">>) >= 1
                       /\ Count(sends, k) = 1
                       /\ \E r \in Records(k) : r.success \in {"True", "False"}

\* the key has been evaluated twice in full: two results, no store error, no crash
TwoEvaluations(k) ==
    /\ Count(outcomes, <<k, "Claimed">>) + Count(outcomes, <<k, "AlreadyClaimed">>) = 2
    /\ ~HasError(k)
    /\ Count(outcomes, <<k, "Crashed">>) = 0
    /\ ~InFlight(k)

\* C5: two full evaluations of the same due class (no store error, no crash, key
\* absent at first) give one Claimed, one AlreadyClaimed, one send, one record.
EvaluatedTwiceClaimedOnce ==
    \A k \in Keys :
      TwoEvaluations(k) =>
        /\ Count(outcomes, <<k, "Claimed">>) = 1
        /\ Count(outcomes, <<k, "AlreadyClaimed">>) = 1
        /\ Count(sends, k) = 1
        /\ Cardinality(Records(k)) = 1

\* a key has been evaluated twice in full
EvaluatedTwice ==
    \E k \in Keys : TwoEvaluations(k) /\ Count(outcomes, <<k, "Claimed">>) = 1

\* delta = now - (classStart - leadMinutes) of the last window evaluation
CalcDelta ==
    calc.now - (DayOf(calc.now) * UnitsPerDay
                + (calc.hour * 60 + calc.minute - calc.lead) * UnitsPerMinute)

\* C6: with delta = now - (classStart - leadMinutes), the class is due exactly
\* when -0.5 <= delta < 5.5 minutes; -0.51 and 5.5 are not due, -0.5 and 5.49 are.
DueWindowBounds ==
    calc.fn = "IsDue" =>
      /\ calc.due = (-50 <= CalcDelta /\ CalcDelta < 550)
      /\ CalcDelta = -51 => ~calc.due
      /\ CalcDelta = -50 => calc.due
      /\ CalcDelta = 549 => calc.due
      /\ CalcDelta = 550 => ~calc.due

\* the last instant of the window, for the longest lead time
LastDueInstant ==
    calc.fn = "IsDue" /\ CalcDelta = 549 /\ calc.lead = 30 /\ calc.due

\* C7: when the send raises after a successful claim, the outcome is written as
\* false, and later ticks end in AlreadyClaimed without another send.
SendErrorRecordedFalse ==
    \A k \in Keys :
      Count(outcomes, <<k, "SendRaised">>) >= 1 =>
        /\ \A r \in Records(k) : r.success = "False"
        /\ Count(sends, k) = 1

\* C8: when the send returns false the key is handled: the record is kept, its
\* outcome is false once the write-back has run, and no later tick sends again.
SendFailedIsHandled ==
    \A k \in Keys :
      Count(outcomes, <<k, "False">>) >= 1 =>
        /\ Count(sends, k) = 1
        /\ Cardinality(Records(k)) = 1
        /\ Count(outcomes, <<k, "Recorded">>) >= 1 =>
             \A r \in Records(k) : r.success = "False"

\* a later evaluation inside the window was blocked by a record with outcome false
FailedSendNotRetried ==
    \E k \in Keys : /\ Count(outcomes, <<k, "False">>) = 1
                    /\ Count(outcomes, <<k, "Recorded">>) = 1
                    /\ Count(outcomes, <<k, "AlreadyClaimed">>) >= 1
                    /\ \E r \in Records(k) : r.success = "False"

\* C9: a failed outcome write-back is neither retried nor propagated; the record
\* stays with outcome absent and keeps blocking sends for the key.
WriteBackFailureKeepsClaim ==
    /\ [](\A k \in Keys :
            Count(outcomes, <<k, "UpdateFailed">>) >= 1 =>
              /\ Count(outcomes, <<k, "UpdateFailed">>) = 1
              /\ Count(outcomes, <<k, "Recorded">>) = 0
              /\ Cardinality(Records(k)) = 1
              /\ \A r \in Records(k) : r.success = "None"
              /\ Count(sends, k) = 1)
    /\ [][ (\E e \in DOMAIN outcomes' :
              e[2] = "UpdateFailed" /\ Count(outcomes', e) > Count(outcomes, e))
           => /\ handler' = "update:281"
              /\ \E p \in Procs : /\ proc[p].pc = "update"
                                  /\ proc' = [proc EXCEPT ![p] = AfterClass(proc[p])] ]_vars

\* after a failed write-back a later evaluation of the key was blocked
BlockedAfterWriteBackFailure ==
    \E k \in Keys : /\ Count(outcomes, <<k, "UpdateFailed">>) = 1
                    /\ Count(outcomes, <<k, "AlreadyClaimed">>) >= 1
                    /\ \E r \in Records(k) : r.success = "None"

\* C10: a store error (other than duplicate key) during the claim attempt creates
\* no record and no send, the tick goes on with the remaining classes, and the
\* key stays free for a later tick.
ClaimFailureLeavesKeyFree ==
    /\ [](\A k \in Keys :
            (HasError(k) /\ Count(outcomes, <<k, "Claimed">>) = 0) =>
              Records(k) = {} /\ Count(sends, k) = 0)
    /\ [][ (\E e \in DOMAIN outcomes' :
              e[2] = "Error" /\ Count(outcomes', e) > Count(outcomes, e))
           => /\ sent_notifications' = sent_notifications
              /\ sends' = sends
              /\ handler' \in {"claim:263", "class:297"}
              /\ \E p \in Procs : /\ proc[p].pc \in {"class", "insert"}
                                  /\ proc' = [proc EXCEPT ![p] = AfterClass(proc[p])] ]_vars

\* the claim attempt of one tick failed and a later tick claimed the key
ClaimedAfterStoreError ==
    \E e \in DOMAIN outcomes :
      /\ e[2] = "Error"
      /\ Count(outcomes, <<e[1], "Claimed">>) = 1
      /\ \E r \in Records(e[1]) : r.sent_at > e[3]

RemovedOnlyBySweeper ==
    [][ \A r \in sent_notifications :
          (\A s \in sent_notifications' : s.notification_key # r.notification_key) =>
            /\ r.expires_at < clock
            /\ calc'.fn = "cleanup"
            /\ calc'.deleted_count >= 1 ]_vars

\* a step of the cleanup job: no other action leaves all of these unchanged
SweepStep ==
    /\ calc'.fn = "cleanup"
    /\ UNCHANGED << clock, steps, ticks, user_settings, schedule_cache, proc, sends,
                    outcomes, scheduler >>

\* C13: a sweep that reaches the store removes every record whose expires_at is
\* before the sweep instant, keeps every record whose expires_at is after it
\* and reports the number removed; with nothing expired it removes nothing and
\* the count is zero.
SweepRemovesExactlyExpired ==
    [][ (SweepStep /\ handler' # "cleanup:344") =>
          /\ \A r \in sent_notifications :
                /\ r.expires_at < clock => r \notin sent_notifications'
                /\ r.expires_at > clock => r \in sent_notifications'
          /\ sent_notifications' \subseteq sent_notifications
          /\ calc'.deleted_count = Cardinality(sent_notifications \ sent_notifications')
          /\ (\A r \in sent_notifications : ~(r.expires_at < clock)) =>
                /\ sent_notifications' = sent_notifications
                /\ calc'.deleted_count = 0 ]_vars

\* a sweep has removed the record that expired and kept the two that have not
SweptOneKeptTwo ==
    /\ calc.fn = "cleanup"
    /\ calc.deleted_count = 1
    /\ handler = "None"
    /\ Cardinality(sent_notifications) = 2
    /\ \A r \in sent_notifications : r.expires_at > clock

\* the stored user with a telegram_id, and the position after the current user
UserOf(tid) == CHOOSE i \in 1..Len(user_settings) : user_settings[i].telegram_id = tid
NextUserOrEnd(pr, qr) ==
    IF pr.uidx < Len(pr.users)
    THEN qr.pc = "user" /\ qr.uidx = pr.uidx + 1 /\ qr.users = pr.users /\ qr.now = pr.now
    ELSE qr.pc = "idle"

\* an unexpired snapshot for the group and the week parity at instant t
HasSnapshot(group, t) ==
    \E c \in schedule_cache :
      c.group_id = group /\ c.week_number = get_week_number(t) /\ c.expires_at > t

\* C14: when no unexpired snapshot exists for the user's group and week parity,
\* the evaluation of that user creates no record, sends nothing and raises no
\* error, and the tick goes on with the next user.
NoSnapshotNoDispatch ==
    /\ [](/\ \A r \in sent_notifications :
               HasSnapshot(Get(user_settings[UserOf(r.telegram_id)], "group_id", "null"),
                           r.sent_at)
           /\ \A k \in DOMAIN sends : Records(k) # {})
    /\ [][ \A p \in Procs :
             (/\ proc[p].pc = "user"
              /\ proc'[p] # proc[p]
              /\ handler' # "user:169"
              /\ ~HasSnapshot(Get(CurUser(proc[p]), "group_id", "null"), proc[p].now))
             => /\ handler' = "None"
                /\ sent_notifications' = sent_notifications
                /\ sends' = sends
                /\ NextUserOrEnd(proc[p], proc'[p]) ]_vars

\* a tick that found G2's snapshot expired has claimed the class of a later user
ClaimedAfterUserWithoutSnapshot ==
    \E r \in sent_notifications :
      /\ r.telegram_id = 1
      /\ ~HasSnapshot("G2", r.sent_at)
      /\ UserOf(3) < UserOf(1)

\* C16: a tick evaluates exactly the users with reminders enabled and a non-empty
\* group; a user with a missing, null or empty group is never evaluated.
OnlyGroupedUsersEvaluated ==
    \A p \in Procs :
      \A i \in 1..Len(proc[p].users) :
        /\ Get(proc[p].users[i], "notifications_enabled", FALSE) = TRUE
        /\ Get(proc[p].users[i], "group_id", "null") \notin {"null", ""}

\* a time text with a start "H:M" before the "-", hour 0..23 and minute 0..59
WellFormedTime(t) ==
    /\ FirstIndex(t, "-") > 0
    /\ LET parts == Split(Strip(SubSeq(t, 1, FirstIndex(t, "-") - 1)), ":")
       IN  /\ Len(parts) = 2
           /\ IntOk(parts[1]) /\ IntVal(parts[1]) \in 0..23
           /\ IntOk(parts[2]) /\ IntVal(parts[2]) \in 0..59

\* C17: a class whose time text is missing or malformed is skipped: no record,
\* no send, and the evaluation goes on with the next class or the next user.
MalformedTimeSkipped ==
    /\ [](/\ \A r \in sent_notifications : WellFormedTime(r.class_time)
           /\ \A k \in DOMAIN sends : Records(k) # {})
    /\ [][ \A p \in Procs :
             (/\ proc[p].pc = "class"
              /\ proc'[p] # proc[p]
              /\ ~WellFormedTime(Get(CurEvent(proc[p]), "time", <<>>)))
             => /\ sent_notifications' = sent_notifications
                /\ sends' = sends
                /\ IF proc[p].cidx < Len(proc[p].classes)
                   THEN /\ proc'[p].pc = "class"
                        /\ proc'[p].cidx = proc[p].cidx + 1
                        /\ proc'[p].classes = proc[p].classes
                   ELSE NextUserOrEnd(proc[p], proc'[p]) ]_vars

\* the last class of the list is being sent after five malformed ones were skipped
SentAfterMalformedClasses ==
    \E p \in Procs :
      /\ proc[p].pc = "send"
      /\ proc[p].cidx = 6
      /\ \A i \in 1..5 : ~WellFormedTime(Get(proc[p].classes[i], "time", <<>>))

\* C19: no failure of the store or of the channel leaves an evaluation tick or a
\* cleanup tick: each exception ends in an except clause of the job, the job goes
\* on or ends normally, and the failing step neither adds nor removes a record.
FailuresStayInsideTick ==
    /\ [](handler \in ErrorHandlers \cup {"None", "dup:257"})
    /\ [][ handler' \in ErrorHandlers =>
             /\ sent_notifications' = sent_notifications
             /\ \A p \in Procs :
                  proc'[p] # proc[p] => proc'[p].pc \in {"idle", "user", "class"} ]_vars
    /\ [](\A k \in Keys :
            (Count(outcomes, <<k, "SendRaised">>) + Count(outcomes, <<k, "UpdateFailed">>) >= 1)
              => Records(k) # {})

\* the cleanup job has just failed, after an evaluation tick whose send raised
\* has run to its end
BothJobsFailedAndEnded ==
    /\ handler = "cleanup:344"
    /\ proc["A"].pc = "idle"
    /\ \E k \in Keys : Count(outcomes, <<k, "SendRaised">>) = 1 /\ HasError(k)

\* day number of 1 January of a year from 2024 on; 2024 and 2028 are leap years
RECURSIVE FirstDayOfYear(_)
FirstDayOfYear(y) ==
    IF y = 2024 THEN 0
    ELSE FirstDayOfYear(y - 1) + (IF y - 1 \in {2024, 2028} THEN 366 ELSE 365)

\* ISO-8601 week of day d: weeks start on Monday and belong to the year of their
\* Thursday; the number counts the Thursdays of that year
ThursdayOf(d) == d - (d % 7) + 3
Iso8601Week(d) ==
    LET y == CHOOSE y \in 2024..2028 :
               FirstDayOfYear(y) <= ThursdayOf(d) /\ ThursdayOf(d) < FirstDayOfYear(y + 1)
    IN  ((ThursdayOf(d) - FirstDayOfYear(y)) \div 7) + 1

\* C15: for every date the week parity is 1 when the ISO-8601 week number is odd
\* and 2 when it is even, also around year boundaries (weeks 52, 53 and 1).
WeekParityFollowsIsoWeek ==
    calc.fn = "week" =>
      calc.week_number = (IF Iso8601Week(calc.day) % 2 = 1 THEN 1 ELSE 2)

\* 1 January 2027, a Friday in ISO week 53 of 2026: parity 1
ParityOfWeek53InJanuary ==
    /\ calc.fn = "week"
    /\ calc.day = FirstDayOfYear(2027)
    /\ Iso8601Week(calc.day) = 53
    /\ calc.week_number = 1

\* C18: after start() the scheduler is running with its three jobs registered
\* (evaluation every 5 minutes, cleanup every 6 hours, reset at midnight in the
\* reference timezone), and the evaluation job fires when its interval elapses.
StartedWithThreeJobs ==
    /\ \A p \in Procs :
         scheduler[p].state \in {"started", "start raised"} =>
           /\ scheduler[p].running
           /\ scheduler[p].jobs =
                { [id |-> "check_notifications", trigger |-> "interval 5 minutes"],
                  [id |-> "cleanup_notifications", trigger |-> "interval 6 hours"],
                  [id |-> "reset_daily_tasks", trigger |-> "cron 00:00 Europe/Moscow"] }
    /\ calc.fn = "trigger" => calc.fired

\* C20: after any sequence of settings saves and preference updates every stored
\* notification_time is an integer in 5..30, and a preference update outside the
\* range is rejected and changes nothing.
StoredLeadInRange ==
    /\ \A i \in 1..Len(user_settings) :
         Get(user_settings[i], "notification_time", 10) \in 5..30
    /\ (calc.fn = "update_notification_settings" /\ calc.status = 422) => handler = "None"

\* ------------------------------------------- sweeps between stalled ticks
\* one user, one class on Monday at 10:30
StallUsers == << InitUsers[1] >>
StallEvents == << InitEvents[1] >>
StallCache ==
    { [group_id |-> "G1", week_number |-> w, events |-> StallEvents,
       expires_at |-> 7 * UnitsPerDay] : w \in {1, 2} }

InitStall ==
    /\ clock = InitClock
    /\ steps = 0
    /\ ticks = 0
    /\ user_settings = StallUsers
    /\ schedule_cache = StallCache
    /\ sent_notifications = {}
    /\ proc = [p \in Procs |-> Idle]
    /\ sends = <<>>
    /\ outcomes = <<>>
    /\ handler = "None"
    /\ calc = NoCalc
    /\ scheduler = [p \in Procs |-> NewScheduler]

\* a day passes; a coroutine suspended at one of its awaits keeps the now it
\* has read at line 79
AdvanceDay ==
    /\ steps < MaxClockSteps
    /\ steps' = steps + 1
    /\ clock' = clock + UnitsPerDay
    /\ handler' = "None"
    /\ UNCHANGED << ticks, user_settings, schedule_cache, sent_notifications, proc,
                    sends, outcomes, calc, scheduler >>

\* the evaluation jobs of two scheduler processes and the cleanup job
NextStall ==
    \/ \E p \in Procs : StartTick(p)
    \/ \E p \in Procs : CheckUser(p)
    \/ \E p \in Procs : Evaluate(p)
    \/ \E p \in Procs : Insert(p)
    \/ \E p \in Procs : Send(p)
    \/ \E p \in Procs : Update(p)
    \/ cleanup_old_notifications
    \/ Advance
    \/ AdvanceDay

SpecStall == InitStall /\ [][NextStall]_vars

\* C21: however sweeps and evaluation ticks interleave, no key is claimed twice:
\* once a record is old enough to be deleted, no tick judges its class and date
\* due any more.
ClaimedOnceDespiteSweeps ==
    \A k \in Keys : Count(outcomes, <<k, "Claimed">>) <= 1

\* ------------------------------------------------ the interval trigger
\* runs of the evaluation job considered
MaxIntervals == 6

\* time between two runs: the 5 minutes of IntervalTrigger(minutes=5), or up
\* to a minute more when a run is late
TickGaps == {5 * UnitsPerMinute, 6 * UnitsPerMinute}

\* Tuesday's classes: one five minutes after midnight, one at 00:20
T0005 == <<"0", "0", ":", "0", "5", "-", "0", "1", ":", "3", "5">>
T0020 == <<"0", "0", ":", "2", "0", "-", "0", "1", ":", "5", "0">>
TriggerEvents ==
    << [day |-> "Vtornik", time |-> T0005, discipline |-> "Math"],
       [day |-> "Vtornik", time |-> T0020, discipline |-> "Physics"] >>
TriggerCache ==
    { [group_id |-> "G1", week_number |-> w, events |-> TriggerEvents,
       expires_at |-> 7 * UnitsPerDay] : w \in {1, 2} }

\* Monday of day 0, 23:45:00
TriggerClock == (23 * 60 + 45) * UnitsPerMinute

InitTrigger ==
    /\ clock = TriggerClock
    /\ steps = 0
    /\ ticks = 0
    /\ user_settings = StallUsers
    /\ schedule_cache = TriggerCache
    /\ sent_notifications = {}
    /\ proc = [p \in Procs |-> Idle]
    /\ sends = <<>>
    /\ outcomes = <<>>
    /\ handler = "None"
    /\ calc = NoCalc
    /\ scheduler = [p \in Procs |-> NewScheduler]

\* the interval of the trigger elapses once the previous run has ended
Elapse ==
    /\ proc["A"].pc = "idle"
    /\ steps = ticks
    /\ steps < MaxIntervals
    /\ steps' = steps + 1
    /\ \E gap \in TickGaps : clock' = clock + gap
    /\ handler' = "None"
    /\ UNCHANGED << ticks, user_settings, schedule_cache, sent_notifications, proc,
                    sends, outcomes, calc, scheduler >>

\* the trigger runs check_and_send_notifications
FireTick == steps = ticks + 1 /\ BeginTick("A")

NextTrigger ==
    \/ Elapse
    \/ FireTick
    \/ CheckUser("A")
    \/ Evaluate("A")
    \/ Insert("A")
    \/ Send("A")
    \/ Update("A")

SpecTrigger == InitTrigger /\ [][NextTrigger]_vars

\* the event loop runs every coroutine that can run; Evaluate is enabled exactly
\* when the process is at a class, so its weak fairness says that the process
\* does not stay there
FairTrigger ==
    /\ SpecTrigger
    /\ WF_vars(Elapse) /\ WF_vars(FireTick) /\ WF_vars(CheckUser("A"))
    /\ []<>(proc["A"].pc # "class")
    /\ WF_vars(Insert("A")) /\ WF_vars(Send("A")) /\ WF_vars(Update("A"))

\* the dispatch key of user 1 for a class of Tuesday
TuesdayKey(e) == << 1, e.discipline, StartTimeStr(e.time), 1 >>

\* C22: with ticks at most 6 minutes apart, every class of the day is judged
\* due by some tick and its key gets claimed, whatever its start time and the
\* lead time, unless a store error is logged on the way.
EveryClassOfDayClaimed ==
    <>( \/ handler \in ErrorHandlers
        \/ \A i \in 1..Len(TriggerEvents) :
             Count(outcomes, <<TuesdayKey(TriggerEvents[i]), "Claimed">>) >= 1 )

\* C23: with ticks 5 minutes apart, a tick that follows the claiming tick by
\* one interval does not judge the class due again.
NotDueOnConsecutiveTicks ==
    [][ \A k \in Keys :
          Count(outcomes', <<k, "AlreadyClaimed">>) > Count(outcomes, <<k, "AlreadyClaimed">>)
          => \A r \in Records(k) : proc["A"].now - r.sent_at # 5 * UnitsPerMinute ]_vars

\* ------------------------------------------------- a send that never returns
\* the await of line 268 when the channel never answers: the coroutine stays
\* suspended, nothing in _check_and_notify ends the wait
SendNeverReturns(p) ==
    /\ proc[p].pc = "send"
    /\ sends' = Incr(sends, DispatchKey(proc[p]))
    /\ proc' = [proc EXCEPT ![p].pc = "hung"]
    /\ handler' = "None"
    /\ UNCHANGED << clock, steps, ticks, user_settings, schedule_cache,
                    sent_notifications, outcomes, calc, scheduler >>

NextHang ==
    \/ StartTick("A")
    \/ CheckUser("A")
    \/ Evaluate("A")
    \/ Insert("A")
    \/ Send("A")
    \/ SendNeverReturns("A")
    \/ Update("A")
    \/ Advance

SpecHang == Init /\ [][NextHang]_vars

\* the event loop resumes every coroutine whose await has completed; Evaluate
\* is enabled exactly when the process is at a class
FairHang ==
    /\ SpecHang
    /\ WF_vars(CheckUser("A"))
    /\ []<>(proc["A"].pc # "class")
    /\ WF_vars(Insert("A")) /\ WF_vars(Send("A")) /\ WF_vars(Update("A"))

\* C24: every evaluation tick eventually finishes, also when a send never
\* returns: the send is cut off after a bounded time.
TickFinishesDespiteHungSend ==
    [](proc["A"].pc # "idle" => <>(proc["A"].pc = "idle"))

\* -------------------------------------------------- notification preferences
\* enabled flag and lead time of the stored user with that telegram_id
Preference(coll, tid) ==
    LET i == IndexOfUser(coll, tid)
    IN  [enabled |-> Get(coll[i], "notifications_enabled", FALSE),
         lead |-> Get(coll[i], "notification_time", 10)]

\* C25: a user's enabled flag and lead time change only by a preference update;
\* saving the profile of an existing user without the notification fields leaves
\* both as they were.
PreferenceKeptOnResave ==
    [][ \A tid \in UserInputs :
          (/\ IndexOfUser(user_settings, tid) # 0
           /\ calc'.fn = "save_user_settings"
           /\ calc'.telegram_id = tid
           /\ ~calc'.given)
          => Preference(user_settings', tid) = Preference(user_settings, tid) ]_vars

\* ------------------------------------------------------ the schedule endpoint
\* datetime.utcnow() at the Moscow wall-clock instant t: Moscow is UTC+3
MoscowOffset == 3 * 60 * UnitsPerMinute
utcnow(t) == t - MoscowOffset

\* POST /schedule (server.py): fetch the events, then upsert the snapshot of
\* (group_id, week_number) with cached_at and expires_at taken from utcnow()
get_schedule_endpoint ==
    /\ \E week_number \in {1, 2}, fail \in BOOLEAN :
         IF fail
         THEN /\ schedule_cache' = schedule_cache
              /\ calc' = [fn |-> "get_schedule_endpoint", status |-> 500]
              /\ handler' = "schedule:292"
         ELSE /\ schedule_cache' =
                   { c \in schedule_cache :
                       ~(c.group_id = "G1" /\ c.week_number = week_number) }
                   \cup { [group_id |-> "G1", week_number |-> week_number,
                           events |-> InitEvents,
                           cached_at |-> utcnow(clock),
                           expires_at |-> utcnow(clock) + 60 * UnitsPerMinute] }
              /\ calc' = [fn |-> "get_schedule_endpoint", status |-> 200]
              /\ handler' = "None"
    /\ UNCHANGED << clock, steps, ticks, user_settings, sent_notifications, proc,
                    sends, outcomes, scheduler >>

\* no snapshot has been cached yet
InitFetch ==
    /\ clock = InitClock
    /\ steps = 0
    /\ ticks = 0
    /\ user_settings = InitUsers
    /\ schedule_cache = {}
    /\ sent_notifications = {}
    /\ proc = [p \in Procs |-> Idle]
    /\ sends = <<>>
    /\ outcomes = <<>>
    /\ handler = "None"
    /\ calc = NoCalc
    /\ scheduler = [p \in Procs |-> NewScheduler]

\* the endpoint and the part of the evaluation job that looks the snapshot up
NextFetch ==
    \/ get_schedule_endpoint
    \/ StartTick("A")
    \/ CheckUser("A")
    \/ Advance

SpecFetch == InitFetch /\ [][NextFetch]_vars

\* the instant, on the Moscow wall clock, at which a cached snapshot expires:
\* one hour after it was cached
ExpiryInstant(c) == (c.cached_at + MoscowOffset) + 60 * UnitsPerMinute

\* C26: a lookup that reaches the store finds a snapshot exactly when one of the
\* user's group and week parity is in the cache and the tick instant is before
\* its expiry instant, one hour after caching.
SnapshotFoundUntilExpiry ==
    [][ (/\ proc["A"].pc = "user"
         /\ proc'["A"] # proc["A"]
         /\ handler' = "None")
        => ( (proc'["A"].pc = "class")
             = (\E c \in schedule_cache :
                  /\ c.group_id = Get(CurUser(proc["A"]), "group_id", "null")
                  /\ c.week_number = get_week_number(proc["A"].now)
                  /\ proc["A"].now < ExpiryInstant(c)) ) ]_vars

\* ------------------------------------------------------- order of evaluation
\* every order of the elements of a sequence
OrdersOf(s) ==
    { [i \in 1..Len(s) |-> s[f[i]]] :
        f \in { g \in [1..Len(s) -> 1..Len(s)] :
                  \A i, j \in 1..Len(s) : g[i] = g[j] => i = j } }

T1032 == <<"1", "0", ":", "3", "2", "-", "1", "2", ":", "0", "2">>

\* users 1 and 3 have reminders enabled, user 2 has not
OrderUsers ==
    << InitUsers[1], InitUsers[2],
       [telegram_id |-> 3, group_id |-> "G1", notifications_enabled |-> TRUE,
        notification_time |-> 10] >>

\* Monday's classes: two are due at 10:22 for a lead time of 10, Physics is not
OrderEvents ==
    << [day |-> "Ponedelnik", time |-> T1030, discipline |-> "Math"],
       [day |-> "Ponedelnik", time |-> T1032, discipline |-> "Chemistry"],
       [day |-> "Ponedelnik", time |-> T1037, discipline |-> "Physics"] >>

\* the tick instant: Monday 10:22:00
OrderClock == InitClock + 2 * ClockStep

\* the record of user 3's Math reminder, left by a tick at 10:19:30
OrderRecord ==
    [ NewRecord([Idle EXCEPT !.now = InitClock + ClockStep, !.users = <<OrderUsers[3]>>,
                             !.uidx = 1, !.classes = <<OrderEvents[1]>>, !.cidx = 1])
      EXCEPT !.success = "True" ]

\* find() and the snapshot may list the users and the events in any order
InitOrder ==
    /\ clock = OrderClock
    /\ steps = 0
    /\ ticks = 0
    /\ user_settings \in OrdersOf(OrderUsers)
    /\ schedule_cache \in
         { { [group_id |-> "G1", week_number |-> w, events |-> ev,
              expires_at |-> 7 * UnitsPerDay] : w \in {1, 2} } :
           ev \in OrdersOf(OrderEvents) }
    /\ sent_notifications = { OrderRecord }
    /\ proc = [p \in Procs |-> Idle]
    /\ sends = <<>>
    /\ outcomes = <<>>
    /\ handler = "None"
    /\ calc = NoCalc
    /\ scheduler = [p \in Procs |-> NewScheduler]

\* ticks of one process at that instant; the store answers every call and the
\* channel returns
NextOrder ==
    \/ StartTick("A") /\ handler' = "None"
    \/ CheckUser("A") /\ handler' = "None"
    \/ Evaluate("A") /\ handler' = "None"
    \/ Insert("A") /\ handler' = "None"
    \/ Send("A") /\ handler' = "None"
    \/ Update("A") /\ handler' = "None"

SpecOrder == InitOrder /\ [][NextOrder]_vars

\* keys of the records created since the initial state
CreatedKeys ==
    { r.notification_key : r \in sent_notifications } \ { OrderRecord.notification_key }

\* the due classes of the eligible users that have no record initially
DueKeys ==
    { notification_key(OrderUsers[u].telegram_id, OrderEvents[e], OrderClock) :
        << u, e >> \in
          { x \in (1..Len(OrderUsers)) \X (1..Len(OrderEvents)) :
              /\ Eligible(OrderUsers[x[1]])
              /\ LET parsed == ParseStart(OrderEvents[x[2]].time)
                 IN  /\ parsed.status = "ok"
                     /\ IsDue(OrderClock, parsed.hour, parsed.minute,
                              OrderUsers[x[1]].notification_time) } }
    \ { OrderRecord.notification_key }

\* C27: for a fixed tick instant, user set, snapshot and initial store, the keys
\* of the records created and the keys sent for are the same whatever the order
\* of the users and of their classes.
SameKeysInEveryOrder ==
    (ticks >= 1 /\ proc["A"].pc = "idle") =>
      /\ CreatedKeys = DueKeys
      /\ DOMAIN sends = DueKeys

\* the tick has ended for the order that starts with user 3 and with Physics
TickEndedInOtherOrder ==
    /\ ticks = 1
    /\ proc["A"].pc = "idle"
    /\ user_settings[1].telegram_id = 3
    /\ \A c \in schedule_cache : c.events[1].discipline = "Physics"
    /\ Cardinality(DOMAIN sends) = 3
    /\ Cardinality(sent_notifications) = 4

\* ------------------------------------------------ events with the same key
T1030Short == <<"1", "0", ":", "3", "0", "-", "1", "1", ":", "1", "5">>

\* Monday's classes: Math twice at 10:30 (lecture and laboratory, different end)
\* and two events without a discipline at 10:32 in different rooms
TwinEvents ==
    << [day |-> "Ponedelnik", time |-> T1030, discipline |-> "Math", lessonType |-> "Lecture"],
       [day |-> "Ponedelnik", time |-> T1030Short, discipline |-> "Math", lessonType |-> "Lab"],
       [day |-> "Ponedelnik", time |-> T1032, auditory |-> "101"],
       [day |-> "Ponedelnik", time |-> T1032, auditory |-> "202"] >>

TwinCache ==
    { [group_id |-> "G1", week_number |-> w, events |-> TwinEvents,
       expires_at |-> 7 * UnitsPerDay] : w \in {1, 2} }

\* Monday 10:22:00, nothing sent yet
InitTwin ==
    /\ clock = OrderClock
    /\ steps = 0
    /\ ticks = 0
    /\ user_settings = StallUsers
    /\ schedule_cache = TwinCache
    /\ sent_notifications = {}
    /\ proc = [p \in Procs |-> Idle]
    /\ sends = <<>>
    /\ outcomes = <<>>
    /\ handler = "None"
    /\ calc = NoCalc
    /\ scheduler = [p \in Procs |-> NewScheduler]

\* the evaluation jobs of two scheduler processes
NextTwin ==
    \/ \E p \in Procs : StartTick(p)
    \/ \E p \in Procs : CheckUser(p)
    \/ \E p \in Procs : Evaluate(p)
    \/ \E p \in Procs : Insert(p)
    \/ \E p \in Procs : Send(p)
    \/ \E p \in Procs : Update(p)

SpecTwin == InitTwin /\ [][NextTwin]_vars

\* pairs of distinct events with the same discipline (or none) and start time
TwinPairs ==
    { x \in (1..Len(TwinEvents)) \X (1..Len(TwinEvents)) :
        /\ x[1] < x[2]
        /\ TwinEvents[x[1]] # TwinEvents[x[2]]
        /\ Get(TwinEvents[x[1]], "discipline", "Unknown")
             = Get(TwinEvents[x[2]], "discipline", "Unknown")
        /\ StartTimeStr(TwinEvents[x[1]].time) = StartTimeStr(TwinEvents[x[2]].time) }

\* the dispatch key of user 1 for an event of Monday
MondayKey(e) ==
    << 1, Get(e, "discipline", "Unknown"), StartTimeStr(e.time), 0 >>

\* C28: two distinct events of a user and date with the same discipline (or
\* both without one) and the same start time have one dispatch key, and at most
\* one of them is claimed and notified.
TwinEventsClaimedOnce ==
    \A x \in TwinPairs :
      LET k == MondayKey(TwinEvents[x[1]])
      IN  /\ notification_key(1, TwinEvents[x[1]], clock)
               = notification_key(1, TwinEvents[x[2]], clock)
          /\ Count(outcomes, <<k, "Claimed">>) <= 1
          /\ Count(sends, k) <= 1
          /\ Cardinality({ r \in sent_notifications :
                             r.telegram_id = 1 /\ r.date = 0
                             /\ r.class_discipline = k[2]
                             /\ StartTimeStr(r.class_time) = k[3] }) <= 1

\* one tick has evaluated all four events: of each pair the first was claimed
\* and sent, the second found the key taken
SecondTwinBlocked ==
    /\ ticks = 1
    /\ \A p \in Procs : proc[p].pc = "idle"
    /\ Cardinality(TwinPairs) = 2
    /\ \A x \in TwinPairs :
         LET k == MondayKey(TwinEvents[x[1]])
         IN  /\ Count(outcomes, <<k, "Claimed">>) = 1
             /\ Count(outcomes, <<k, "AlreadyClaimed">>) = 1
             /\ Count(sends, k) = 1

\* ------------------------------------------- lead time changed between ticks
\* the evaluation job of one process, and preference updates between its ticks
UpdateBetweenTicks == proc["A"].pc = "idle" /\ update_notification_settings

NextLead ==
    \/ StartTick("A")
    \/ CheckUser("A")
    \/ Evaluate("A")
    \/ Insert("A")
    \/ Send("A")
    \/ Update("A")
    \/ UpdateBetweenTicks
    \/ Advance

SpecLead == Init /\ [][NextLead]_vars

\* C29: a change of the user's lead time between ticks, after a class of the
\* date has been claimed, gives no second record and no second send for that
\* class and date.
LeadChangeNoSecondDispatch ==
    \A k \in Keys :
      /\ Count(outcomes, <<k, "Claimed">>) <= 1
      /\ Count(sends, k) <= 1
      /\ \A r1, r2 \in Records(k) : r1 = r2
      /\ \A r \in Records(k) :
           Count(outcomes, <<k, "Claimed">>) = 1

\* Math was claimed with lead time 10; the user then chose 5, and the tick at
\* 10:27, for which Math is due only with the new lead time, found the key taken
DueAgainUnderNewLead ==
    LET k == MondayKey(InitEvents[1])
    IN  /\ ticks = 2
        /\ proc["A"].pc # "idle"
        /\ proc["A"].now = InitClock + 4 * ClockStep
        /\ CurLead(proc["A"]) = 5
        /\ ~IsDue(proc["A"].now, 10, 30, 10)
        /\ IsDue(proc["A"].now, 10, 30, 5)
        /\ Count(outcomes, <<k, "Claimed">>) = 1
        /\ Count(outcomes, <<k, "AlreadyClaimed">>) = 1
        /\ \E r \in Records(k) : r.notification_time_minutes = 10

\* ------------------------------------------------ the read before the insert
\* Monday 10:22:00: Math at 10:30 and Chemistry at 10:32 are due for user 1,
\* nothing has been sent, and two scheduler processes evaluate
ReadCache ==
    { [group_id |-> "G1", week_number |-> w, events |-> SubSeq(OrderEvents, 1, 2),
       expires_at |-> 7 * UnitsPerDay] : w \in {1, 2} }

InitRead ==
    /\ clock = OrderClock
    /\ steps = 0
    /\ ticks = 0
    /\ user_settings = StallUsers
    /\ schedule_cache = ReadCache
    /\ sent_notifications = {}
    /\ proc = [p \in Procs |-> Idle]
    /\ sends = <<>>
    /\ outcomes = <<>>
    /\ handler = "None"
    /\ calc = NoCalc
    /\ scheduler = [p \in Procs |-> NewScheduler]

SpecRead == InitRead /\ [][NextTwin]_vars

\* what going straight to the insert of lines 245-255 would give for the class
\* a process is at, the store answering
DirectInsert(p) == insert_one(sent_notifications, NewRecord(proc[p]), FALSE)

\* process p takes the step of lines 187-238 and the store answers; at 10:22
\* every class of the snapshot is due
PreCheckStep(p) ==
    /\ proc[p].pc = "class"
    /\ proc'[p] # proc[p]
    /\ Count(outcomes', <<DispatchKey(proc[p]), "Error", proc[p].now>>)
         = Count(outcomes, <<DispatchKey(proc[p]), "Error", proc[p].now>>)

\* C30: the read before the insert changes no result. When it finds the record,
\* the insert at that moment would report a duplicate and leave the store as it
\* is (AlreadyClaimed, no send); when it finds none, the insert would be
\* accepted, and the read itself changes neither records, sends nor results.
PreCheckIsShortcutOfInsert ==
    [][ \A p \in Procs :
          /\ proc[p].pc \in {"class", "insert"} =>
               ( (find_one(sent_notifications, CurKey(proc[p])) # {})
                 = (DirectInsert(p).error = "DuplicateKeyError") )
          /\ (PreCheckStep(p) /\ proc'[p].pc = "insert") =>
               /\ DirectInsert(p).error = "None"
               /\ DirectInsert(p).coll = sent_notifications \cup {NewRecord(proc'[p])}
               /\ UNCHANGED << sent_notifications, sends, outcomes >>
          /\ (PreCheckStep(p) /\ proc'[p].pc # "insert") =>
               /\ DirectInsert(p) = [error |-> "DuplicateKeyError", coll |-> sent_notifications]
               /\ Count(outcomes', <<DispatchKey(proc[p]), "AlreadyClaimed">>)
                    = Count(outcomes, <<DispatchKey(proc[p]), "AlreadyClaimed">>) + 1
               /\ UNCHANGED << sent_notifications, sends >> ]_vars

\* of two overlapping ticks, the second was stopped by the read for Math, whose
\* claimer is still at work, and has passed the read for Chemistry
ReadStoppedOneAndPassedOther ==
    \E p, q \in Procs :
      /\ p # q
      /\ proc[p].pc = "insert"
      /\ CurEvent(proc[p]).discipline = "Chemistry"
      /\ proc[q].pc \in {"send", "update"}
      /\ CurEvent(proc[q]).discipline = "Math"
      /\ Count(outcomes, <<DispatchKey(proc[q]), "Claimed">>) = 1
      /\ Count(outcomes, <<DispatchKey(proc[q]), "AlreadyClaimed">>) = 1
      /\ ~HasError(DispatchKey(proc[q]))

====
